---- MODULE Spec2Model ----
(***************************************************************************)
(* A model of the CRCNS crawler pipelines of datalad                       *)
(* (datalad/crawler/pipelines/crcns.py): the staged ingestion pipeline     *)
(* built by pipeline(), the discovery pipeline built by                    *)
(* superdataset_pipeline(), and get_metadata().                            *)
(***************************************************************************)
EXTENDS FiniteSets, Integers, Sequences, TLC

(***************************************************************************)
(* Bounds of the model.                                                    *)
(***************************************************************************)
MaxRuns == 3
MaxCrawls == 2
MaxDocs == 3

(***************************************************************************)
(* The universe of the ingestion pipeline.                                 *)
(***************************************************************************)
Branches == {"incoming", "incoming-processed", "master"}

\* the files a dataset's download area may publish
Files == {"checksums.md5", "filelist.txt", "a.tgz", "b.mat"}

\* the suffix of a file name, as the regular expressions of the pipeline see it
Suffix(f) ==
    CASE f = "checksums.md5" -> "md5"
      [] f = "filelist.txt"  -> "txt"
      [] f = "a.tgz"         -> "tgz"
      [] f = "d.tgz"         -> "tgz"
      [] f = "b.mat"         -> "mat"
      [] f = "c.mat"         -> "mat"
      [] OTHER               -> "dat"

\* an ordering of a finite set, as a sequence
RECURSIVE SetToSeq(_)
SetToSeq(S) ==
    IF S = {} THEN <<>>
    ELSE LET x == CHOOSE y \in S : TRUE IN <<x>> \o SetToSeq(S \ {x})

IsPrefix(p, s) == Len(p) <= Len(s) /\ SubSeq(s, 1, Len(p)) = p

VARIABLES
    pc,            \* "idle", "running", "done", "failed", "config_error"
    pos,           \* index of the node of the pipeline that runs next
    cfg,           \* the keyword configuration of the current pipeline
    runs,          \* number of pipeline() calls made so far
    source,        \* the files the remote download area publishes
    active,        \* the active branch of the store
    branches,      \* the branches that exist
    tree,          \* the committed tree of every branch
    wt,            \* the working tree / index of the active branch
    commits,       \* the number of commits of every branch
    merged,        \* per branch: commits of its merge source already merged
    pendingMerge,  \* commit of the source of a merge started, not committed
    workdirs,      \* transient working state of archive expansion
    stream,        \* records of the capture sub-pipeline not yet added
    archives,      \* archives found by find_files not yet expanded
    log,           \* the store operations of the current run, in order
    storeOpened,   \* the content store adapter of this run has been built
    fetches,       \* fetches issued in this run
    startCommits,  \* commits of every branch when the run started
    repeat,        \* this run repeats a completed run on unchanged source
    added          \* the records annex added in this run, in order

pvars == <<pc, pos, cfg, runs, source, active, branches, tree, wt, commits,
           merged, pendingMerge, workdirs, stream, archives, log,
           storeOpened, fetches, startCommits, repeat, added>>

\* the discovery pipeline
VARIABLES
    dpc,        \* "idle", "crawling", "done"
    druns,      \* runs of the discovery pipeline so far
    links,      \* the links of every page of the site
    toVisit,    \* URLs crawl_url still has to visit, next first
    seen,       \* URLs crawl_url visited in this run
    out,        \* records of the matcher not yet consumed downstream
    received,   \* URLs of the records initiate_dataset received in this run
    stores,     \* identities a store instance exists for
    creations   \* per identity: store creations performed

dvars == <<dpc, druns, links, toVisit, seen, out, received, stores, creations>>

\* get_metadata()
VARIABLES
    mpc,           \* "loop", "returned"
    docs,          \* rj['response']['docs'], each with its decoded xml
    dataset,       \* the argument of get_metadata; "" is None
    mi,            \* the entry the loop is at
    all_datasets,  \* the dictionary being collected
    stored_by,     \* per key of all_datasets: the entry whose record it holds
    warnings,      \* the warnings logged
    ret            \* what was returned: "" not yet, "dict", "entry"

mvars == <<mpc, docs, dataset, mi, all_datasets, stored_by, warnings, ret>>

\* HandleRepo: the handle repositories and the instances constructed on them
VARIABLES
    config_file,   \* per repository path: .datalad/handle.cfg as added to git
    cloned,        \* the clone of the original repository exists
    handles,       \* the HandleRepo instances, in the order of construction
    raised         \* the last call raised TypeError

hvars == <<config_file, cloned, handles, raised>>

\* Unlock.__call__: one call of the generator after the other
VARIABLES
    upc,               \* where the call stands
    ucalls,            \* number of calls made so far
    path_arg,          \* the argument path: given or None, and the paths
    dataset_arg,       \* the argument dataset, None when not given
    repo_kind,         \* per dataset path: what Dataset(ds_path).repo is
    resolved_paths,
    content_by_ds,
    unavailable_paths,
    nondataset_paths,
    todo,              \* what the running for loop has still to iterate over
    results,           \* the results yielded by the call, in order
    commands           \* the 'git annex unlock' commands issued by the call

uvars == <<upc, ucalls, path_arg, dataset_arg, repo_kind, resolved_paths,
           content_by_ds, unavailable_paths, nondataset_paths, todo, results,
           commands>>

vars == <<pvars, dvars, mvars, hvars, uvars>>

Ev(o, a) == [op |-> o, arg |-> a]

(***************************************************************************)
(* The nodes of the pipeline.                                              *)
(***************************************************************************)
Node(o, b) ==
    [op |-> o, branch |-> b, strategy |-> "none", commit |-> TRUE,
     skip_no_changes |-> TRUE, fail_if_none |-> FALSE, cleanup |-> FALSE,
     delete |-> FALSE]

switch_branch(b) == Node("switch_branch", b)

merge_branch(b, strat, com) ==
    [Node("merge_branch", b) EXCEPT !.strategy = strat, !.commit = com]

find_files(fail) == [Node("find_files", "") EXCEPT !.fail_if_none = fail]

add_archive_content == [Node("add_archive_content", "") EXCEPT !.delete = TRUE]

finalize(clean) == [Node("finalize", "") EXCEPT !.cleanup = clean]

At(nest, node) == [nest |-> nest, node |-> node]

(***************************************************************************)
(* pipeline(): the configuration surface.                                  *)
(***************************************************************************)
DataOrigins == {"checksums", "urls", "ftp"}

\* leading_dirs_depth as the caller may pass it: an int, or text from a config
LeadingDirsDepths ==
    {[isint |-> TRUE, text |-> "2"], [isint |-> FALSE, text |-> "2"],
     [isint |-> FALSE, text |-> "two"]}

\* int(text) succeeds
IntParses(text) == text \in {"0", "1", "2", "3"}

\* the rename rules a caller may pass; <<>> is rename=None
Renames ==
    {<<>>, <<[from |-> "b.mat", to |-> "c.mat"]>>,
     <<[from |-> "a.tgz", to |-> "d.tgz"]>>}

Configs ==
    [data_origin : DataOrigins, tarballs : BOOLEAN, rename : Renames]

(***************************************************************************)
(* The capture sub-pipeline urls_pipe: nodes without effect on the store.  *)
(***************************************************************************)
Url(site, f) == [site |-> site, file |-> f]

Record(site, f) == [url |-> Url(site, f), filename |-> f]

\* parse_checksums: one record per line of the manifest
parse_checksums(listing) ==
    LET fs == SetToSeq(listing)
    IN  [i \in 1..Len(fs) |-> Record("nersc", fs[i])]

\* skip_if({'url': '(checksums.md5|filelist.txt)$'}, re=True)
SkipUrl_only_manifest(r) == r.url.file \in {"checksums.md5"}
SkipUrl(r) == r.url.file \in {"checksums.md5", "filelist.txt"}
KeepUrl(r) == ~SkipUrl(r)
skip_if(recs) == SelectSeq(recs, KeepUrl)

\* a_href_match('.*/.*\.(tgz|tar.*|zip)', min_count=1)
min_count == 1
ArchiveHref(f) == Suffix(f) \in {"tgz", "tar", "zip"}
a_href_match(hrefs) ==
    LET fs == SetToSeq({f \in hrefs : ArchiveHref(f)})
    IN  [i \in 1..Len(fs) |-> Record("crcns", fs[i])]

\* sub({'filename': get_replacement_dict(rename)})
Replace(rules, name) ==
    IF rules # <<>> /\ rules[1].from = name THEN rules[1].to ELSE name
sub(rules, recs) ==
    [i \in 1..Len(recs) |-> [recs[i] EXCEPT !.filename = Replace(rules, @)]]

\* the capture sub-pipeline without the sub node of the rename rules
urls_pipe_no_sub(c) ==
    IF c.data_origin = "checksums"
    THEN <<"crawl_url", "parse_checksums", "skip_if">>
    ELSE <<"crawler", "a_href_match">>

\* the capture sub-pipeline with the dataset page crawled in the manifest
\* branch too
urls_pipe_both(c) ==
    (IF c.data_origin = "checksums"
     THEN <<"crawl_url", "parse_checksums", "skip_if", "crawler">>
     ELSE <<"crawler", "a_href_match">>)
    \o (IF c.rename # <<>> THEN <<"sub">> ELSE <<>>)

\* the node list of the capture sub-pipeline for a configuration
urls_pipe(c) ==
    (IF c.data_origin = "checksums"
     THEN <<"crawl_url", "parse_checksums", "skip_if">>
     ELSE <<"crawler", "a_href_match">>)
    \o (IF c.rename # <<>> THEN <<"sub">> ELSE <<>>)

\* the records the capture sub-pipeline hands to annex, given what was fetched
RECURSIVE RunNodes(_, _, _)
RunNodes(nodes, c, data) ==
    IF nodes = <<>> THEN data
    ELSE LET n == Head(nodes)
             res == CASE n = "crawl_url"       -> data
                      [] n = "crawler"         -> data
                      [] n = "parse_checksums" -> parse_checksums(data)
                      [] n = "a_href_match"    -> a_href_match(data)
                      [] n = "skip_if"         -> skip_if(data)
                      [] n = "sub"             -> sub(c.rename, data)
         IN  RunNodes(Tail(nodes), c, res)

\* a_href_match raises when it matched fewer than min_count links
TooFewMatches(c, fetched) ==
    /\ "a_href_match" \in {urls_pipe(c)[i] : i \in 1..Len(urls_pipe(c))}
    /\ Len(a_href_match(fetched)) < min_count

(***************************************************************************)
(* The list pipeline() returns, flattened: every node with the nested      *)
(* sub-pipeline it belongs to.                                             *)
(***************************************************************************)
\* the condition find_files fails on: fail_if_none=tarballs
fail_if_none_always == TRUE
fail_if_none == cfg.tarballs

\* pipeline() with the normalization nodes in a sub-pipeline of their own,
\* not behind the merge of incoming
pipeline_normalize_not_nested ==
    << At(<<>>,     switch_branch("incoming")),
       At(<<1, 1>>, Node("urls_pipe", "")),
       At(<<1, 1>>, Node("annex", "")),
       At(<<>>,     switch_branch("incoming-processed")),
       At(<<2>>,    merge_branch("incoming", "theirs", FALSE)),
       At(<<3, 1>>, find_files(fail_if_none)),
       At(<<3, 1>>, add_archive_content),
       At(<<>>,     switch_branch("master")),
       At(<<>>,     merge_branch("incoming-processed", "none", TRUE)),
       At(<<>>,     finalize(TRUE)) >>

\* pipeline() with the switch to master ahead of the capture sub-pipeline
pipeline_capture_on_master ==
    << At(<<>>,     switch_branch("master")),
       At(<<1, 1>>, Node("urls_pipe", "")),
       At(<<1, 1>>, Node("annex", "")),
       At(<<>>,     switch_branch("incoming-processed")),
       At(<<2>>,    merge_branch("incoming", "theirs", FALSE)),
       At(<<2, 1>>, find_files(fail_if_none)),
       At(<<2, 1>>, add_archive_content),
       At(<<>>,     switch_branch("incoming")),
       At(<<>>,     merge_branch("incoming-processed", "none", TRUE)),
       At(<<>>,     finalize(TRUE)) >>

\* pipeline() with the merge of incoming ahead of the switch to
\* incoming-processed
pipeline_merge_before_switch ==
    << At(<<>>,     switch_branch("incoming")),
       At(<<1, 1>>, Node("urls_pipe", "")),
       At(<<1, 1>>, Node("annex", "")),
       At(<<2>>,    merge_branch("incoming", "theirs", FALSE)),
       At(<<>>,     switch_branch("incoming-processed")),
       At(<<3, 1>>, find_files(fail_if_none)),
       At(<<3, 1>>, add_archive_content),
       At(<<>>,     switch_branch("master")),
       At(<<>>,     merge_branch("incoming-processed", "none", TRUE)),
       At(<<>>,     finalize(TRUE)) >>

\* pipeline() without the switch to master
pipeline_no_switch_master ==
    << At(<<>>,     switch_branch("incoming")),
       At(<<1, 1>>, Node("urls_pipe", "")),
       At(<<1, 1>>, Node("annex", "")),
       At(<<>>,     switch_branch("incoming-processed")),
       At(<<2>>,    merge_branch("incoming", "theirs", FALSE)),
       At(<<2, 1>>, find_files(fail_if_none)),
       At(<<2, 1>>, add_archive_content),
       At(<<>>,     merge_branch("incoming-processed", "none", TRUE)),
       At(<<>>,     finalize(TRUE)) >>

\* pipeline() with the two later switches exchanged: incoming is merged
\* while master is checked out
pipeline_master_before_merge ==
    << At(<<>>,     switch_branch("incoming")),
       At(<<1, 1>>, Node("urls_pipe", "")),
       At(<<1, 1>>, Node("annex", "")),
       At(<<>>,     switch_branch("master")),
       At(<<2>>,    merge_branch("incoming", "theirs", FALSE)),
       At(<<2, 1>>, find_files(fail_if_none)),
       At(<<2, 1>>, add_archive_content),
       At(<<>>,     switch_branch("incoming-processed")),
       At(<<>>,     merge_branch("incoming-processed", "none", TRUE)),
       At(<<>>,     finalize(TRUE)) >>

\* pipeline() with finalize(cleanup=False)
pipeline_finalize_no_cleanup ==
    << At(<<>>,     switch_branch("incoming")),
       At(<<1, 1>>, Node("urls_pipe", "")),
       At(<<1, 1>>, Node("annex", "")),
       At(<<>>,     switch_branch("incoming-processed")),
       At(<<2>>,    merge_branch("incoming", "theirs", FALSE)),
       At(<<2, 1>>, find_files(fail_if_none)),
       At(<<2, 1>>, add_archive_content),
       At(<<>>,     switch_branch("master")),
       At(<<>>,     merge_branch("incoming-processed", "none", TRUE)),
       At(<<>>,     finalize(FALSE)) >>

pipeline ==
    << At(<<>>,     switch_branch("incoming")),
       At(<<1, 1>>, Node("urls_pipe", "")),
       At(<<1, 1>>, Node("annex", "")),
       At(<<>>,     switch_branch("incoming-processed")),
       At(<<2>>,    merge_branch("incoming", "theirs", FALSE)),
       At(<<2, 1>>, find_files(fail_if_none)),
       At(<<2, 1>>, add_archive_content),
       At(<<>>,     switch_branch("master")),
       At(<<>>,     merge_branch("incoming-processed", "none", TRUE)),
       At(<<>>,     finalize(TRUE)) >>

Cur == pipeline[pos].node

\* a node yielded a record: the next node of the list runs
Yielded(p) == p + 1

\* a node yielded nothing: the rest of its own (sub-)pipeline is skipped and
\* the enclosing pipeline goes on with what follows the sub-pipeline
NotYielded(p) ==
    LET later == {q \in (p + 1)..Len(pipeline) :
                      ~IsPrefix(pipeline[p].nest, pipeline[q].nest)}
    IN  IF later = {} THEN Len(pipeline) + 1
        ELSE CHOOSE q \in later : \A r \in later : q <= r

Goto(q) ==
    /\ pos' = q
    /\ pc' = IF q > Len(pipeline) THEN "done" ELSE "running"

At_(o) == pc = "running" /\ pos \in 1..Len(pipeline) /\ Cur.op = o

(***************************************************************************)
(* The content store.                                                      *)
(***************************************************************************)
Dirty == wt # tree[active] \/ pendingMerge # 0

\* the state of the store after committing what is staged on the active branch
CommittedTree == IF Dirty THEN [tree EXCEPT ![active] = wt] ELSE tree
CommittedCount == IF Dirty THEN [commits EXCEPT ![active] = @ + 1] ELSE commits
CommittedMerged ==
    IF pendingMerge # 0 THEN [merged EXCEPT ![active] = pendingMerge] ELSE merged
CommitLog == IF Dirty THEN <<Ev("commit", active)>> ELSE <<>>

IsArchive(f) == Suffix(f) \in {"zip", "tgz", "tar"}

\* the files an archive expands to
Contents(a) == IF a \in {"a.tgz", "d.tgz"} THEN {"a.dat"} ELSE {}

InitStore ==
    /\ active = "master"
    /\ branches = {"master"}
    /\ tree = [b \in Branches |-> {}]
    /\ wt = {}
    /\ commits = [b \in Branches |-> 0]
    /\ merged = [b \in Branches |-> 0]
    /\ pendingMerge = 0
    /\ workdirs = {}

InitPipeline ==
    /\ pc = "idle"
    /\ pos = 0
    /\ cfg = [data_origin |-> "checksums", tarballs |-> TRUE, rename |-> <<>>]
    /\ runs = 0
    /\ source \in SUBSET Files
    /\ InitStore
    /\ stream = <<>>
    /\ archives = <<>>
    /\ log = <<>>
    /\ storeOpened = FALSE
    /\ fetches = 0
    /\ startCommits = [b \in Branches |-> 0]
    /\ repeat = FALSE
    /\ added = <<>>

storeVars == <<active, branches, tree, wt, commits, merged, pendingMerge,
               workdirs>>

(***************************************************************************)
(* pipeline(dataset, dataset_category, ...): builds the pipeline; the run  *)
(* of the returned list starts at its first node.                          *)
(***************************************************************************)
CallPipeline(c, depth) ==
    /\ pc # "running"
    /\ runs < MaxRuns
    /\ runs' = runs + 1
    /\ log' = <<>>
    /\ fetches' = 0
    /\ stream' = <<>>
    /\ archives' = <<>>
    /\ startCommits' = commits
    /\ added' = <<>>
    /\ UNCHANGED <<source, storeVars>>
    /\ IF ~depth.isint /\ ~IntParses(depth.text)
       THEN \* int(leading_dirs_depth) raises
            /\ pc' = "config_error"
            /\ storeOpened' = FALSE
            /\ UNCHANGED <<pos, cfg, repeat>>
       ELSE \* annex = Annexificator(create=False, ...)
            /\ storeOpened' = TRUE
            /\ IF c.data_origin \notin {"checksums", "urls"}
               THEN \* raise ValueError(data_origin)
                    /\ pc' = "config_error"
                    /\ UNCHANGED <<pos, cfg, repeat>>
               ELSE /\ pc' = "running"
                    /\ pos' = 1
                    /\ cfg' = c
                    /\ repeat' = (pc = "done" /\ c = cfg)

\* the content of the remote source changes between two runs
SourceChanges(s) ==
    /\ pc # "running"
    /\ runs < MaxRuns
    /\ s # source
    /\ source' = s
    /\ repeat' = FALSE
    /\ pc' = IF pc = "done" THEN "idle" ELSE pc
    /\ UNCHANGED <<pos, cfg, runs, storeVars, stream, archives, log,
                   storeOpened, fetches, startCommits, added>>

(***************************************************************************)
(* annex.switch_branch(branch): finalizes the active branch, then checks   *)
(* out the branch, creating it when it does not exist.                     *)
(***************************************************************************)
SwitchBranch ==
    /\ At_("switch_branch")
    /\ tree' = CommittedTree
    /\ commits' = CommittedCount
    /\ merged' = CommittedMerged
    /\ pendingMerge' = 0
    /\ active' = Cur.branch
    /\ branches' = branches \cup {Cur.branch}
    /\ wt' = tree'[Cur.branch]
    /\ log' = log \o CommitLog \o <<Ev("switch_branch", Cur.branch)>>
    /\ Goto(Yielded(pos))
    /\ UNCHANGED <<cfg, runs, source, workdirs, stream, archives,
                   storeOpened, fetches, startCommits, repeat, added>>

(***************************************************************************)
(* urls_pipe: fetch the manifest or the dataset page and enumerate the     *)
(* records to capture.                                                     *)
(***************************************************************************)
Capture(ok) ==
    /\ At_("urls_pipe")
    /\ fetches' = fetches + 1
    /\ UNCHANGED <<cfg, runs, source, storeVars, archives, storeOpened,
                   startCommits, repeat, added>>
    /\ IF ~ok \/ TooFewMatches(cfg, source)
       THEN \* the fetch fails, or a_href_match finds too few links
            /\ pc' = "failed"
            /\ log' = log \o <<Ev("urls_pipe", "failed")>>
            /\ UNCHANGED <<pos, stream>>
       ELSE LET recs == RunNodes(urls_pipe(cfg), cfg, source)
            IN  /\ stream' = recs
                /\ log' = log \o <<Ev("urls_pipe",
                                     IF recs = <<>> THEN "empty" ELSE "records")>>
                /\ Goto(IF recs = <<>> THEN NotYielded(pos) ELSE Yielded(pos))

(***************************************************************************)
(* annex: add the content of one record to the store.                      *)
(***************************************************************************)
Annex ==
    /\ At_("annex")
    /\ stream # <<>>
    /\ wt' = wt \cup {Head(stream).filename}
    /\ stream' = Tail(stream)
    /\ log' = log \o <<Ev("annex", Head(stream).url.file)>>
    /\ IF Tail(stream) = <<>> THEN Goto(Yielded(pos)) ELSE UNCHANGED <<pc, pos>>
    /\ added' = Append(added, Head(stream))
    /\ UNCHANGED <<cfg, runs, source, active, branches, tree, commits, merged,
                   pendingMerge, workdirs, archives, storeOpened, fetches,
                   startCommits, repeat>>

(***************************************************************************)
(* annex.merge_branch(branch, strategy, commit, allow_unrelated)           *)
(***************************************************************************)
MergeBranch ==
    /\ At_("merge_branch")
    /\ LET src == Cur.branch
           noNew == merged[active] = commits[src]
       IN  IF noNew /\ Cur.skip_no_changes
           THEN \* nothing new to merge: the node yields nothing
                /\ log' = log \o <<Ev("merge_branch", src), Ev("skip_merge", src)>>
                /\ Goto(NotYielded(pos))
                /\ UNCHANGED <<tree, wt, commits, merged, pendingMerge>>
           ELSE /\ IF Cur.commit
                   THEN /\ tree' = [tree EXCEPT ![active] = tree[src]]
                        /\ commits' = IF noNew /\ tree[src] = tree[active]
                                      THEN commits
                                      ELSE [commits EXCEPT ![active] = @ + 1]
                        /\ merged' = [merged EXCEPT ![active] = commits[src]]
                        /\ pendingMerge' = 0
                        /\ log' = log \o <<Ev("merge_branch", src),
                                           Ev("merged", src), Ev("commit", active)>>
                   ELSE /\ pendingMerge' = IF noNew THEN 0 ELSE commits[src]
                        /\ log' = log \o <<Ev("merge_branch", src), Ev("merged", src)>>
                        /\ UNCHANGED <<tree, commits, merged>>
                /\ wt' = tree[src]
                /\ Goto(Yielded(pos))
    /\ UNCHANGED <<cfg, runs, source, active, branches, workdirs, stream,
                   archives, storeOpened, fetches, startCommits, repeat, added>>

(***************************************************************************)
(* find_files(regex, fail_if_none)                                         *)
(***************************************************************************)
FindFiles ==
    /\ At_("find_files")
    /\ LET found == {f \in wt : IsArchive(f)}
       IN  /\ log' = log \o <<Ev("find_files",
                                 IF found = {} THEN "none" ELSE "found")>>
           /\ IF found = {} /\ Cur.fail_if_none
              THEN /\ pc' = "failed"
                   /\ UNCHANGED <<pos, archives>>
              ELSE /\ archives' = SetToSeq(found)
                   /\ Goto(IF found = {} THEN NotYielded(pos) ELSE Yielded(pos))
    /\ UNCHANGED <<cfg, runs, source, storeVars, stream, storeOpened, fetches,
                   startCommits, repeat, added>>

(***************************************************************************)
(* annex.add_archive_content(...): expand one archive and delete it.       *)
(***************************************************************************)
AddArchiveContent ==
    /\ At_("add_archive_content")
    /\ archives # <<>>
    /\ LET a == Head(archives)
       IN  /\ wt' = (IF Cur.delete THEN wt \ {a} ELSE wt) \cup Contents(a)
           /\ workdirs' = workdirs \cup {a}
           /\ log' = log \o <<Ev("add_archive_content", a)>>
                         \o (IF Cur.delete THEN <<Ev("delete", a)>> ELSE <<>>)
    /\ archives' = Tail(archives)
    /\ IF Tail(archives) = <<>> THEN Goto(Yielded(pos)) ELSE UNCHANGED <<pc, pos>>
    /\ UNCHANGED <<cfg, runs, source, active, branches, tree, commits, merged,
                   pendingMerge, stream, storeOpened, fetches, startCommits,
                   repeat, added>>

(***************************************************************************)
(* annex.finalize(cleanup): commit what is staged, remove transient state. *)
(***************************************************************************)
Finalize ==
    /\ At_("finalize")
    /\ tree' = CommittedTree
    /\ commits' = CommittedCount
    /\ merged' = CommittedMerged
    /\ pendingMerge' = 0
    /\ workdirs' = IF Cur.cleanup THEN {} ELSE workdirs
    /\ log' = log \o CommitLog \o <<Ev("finalize", "")>>
    /\ Goto(Yielded(pos))
    /\ UNCHANGED <<cfg, runs, source, active, branches, wt, stream, archives,
                   storeOpened, fetches, startCommits, repeat, added>>

TypeOK ==
    /\ pc \in {"idle", "running", "done", "failed", "config_error"}
    /\ active \in Branches
    /\ wt \subseteq Files \cup {"a.dat", "c.mat", "d.tgz"}

(***************************************************************************)
(* Reading the log of a run.                                               *)
(***************************************************************************)
Has(o, a) == \E i \in DOMAIN log : log[i] = Ev(o, a)
HasOp(o) == \E i \in DOMAIN log : log[i].op = o

\* the phase of the staged ingestion protocol a store operation belongs to;
\* 0 for the commits, which belong to whichever node finalizes
Phase(e) ==
    CASE e.op = "switch_branch" /\ e.arg = "incoming"           -> 1
      [] e.op \in {"urls_pipe", "annex"}                        -> 2
      [] e.op = "switch_branch" /\ e.arg = "incoming-processed" -> 3
      [] e.op \in {"merge_branch", "merged", "skip_merge"}
            /\ e.arg = "incoming"                               -> 4
      [] e.op \in {"find_files", "add_archive_content", "delete"} -> 5
      [] e.op = "switch_branch" /\ e.arg = "master"             -> 6
      [] e.op \in {"merge_branch", "merged", "skip_merge"}
            /\ e.arg = "incoming-processed"                     -> 7
      [] e.op = "finalize"                                      -> 8
      [] OTHER                                                  -> 0

Phases == {Phase(log[i]) : i \in DOMAIN log}

\* C1: in every run the store operations happen in the phase order switch to
\* incoming, capture, switch to incoming-processed, merge of incoming,
\* normalization, switch to master, merge of incoming-processed, finalize: no
\* operation of a later phase precedes one of an earlier phase, and a run that
\* ended went through both switches and both merges in that order.
C1_PhaseOrder ==
    /\ \A i, j \in DOMAIN log :
          (i < j /\ Phase(log[i]) > 0 /\ Phase(log[j]) > 0)
              => Phase(log[i]) <= Phase(log[j])
    /\ \A k \in Phases \ {0, 1} : 1 \in Phases
    /\ \A k \in Phases : k >= 4 => 3 \in Phases
    /\ \A k \in Phases : k >= 7 => 6 \in Phases
    /\ pc = "done" => {1, 2, 3, 4, 6, 7} \subseteq Phases

C1_Witness == pc = "done" /\ Phases = 0..8

\* C2: over any sequence of runs, no capture add and no archive expansion is
\* performed while master is the active branch, and the committed content of
\* master changes only in the step that merges incoming-processed into it.
C2_MasterOnlyByMerge ==
    [][ /\ (Annex \/ AddArchiveContent) => active # "master"
        /\ (tree'["master"] # tree["master"]
              \/ commits'["master"] # commits["master"])
             => (MergeBranch /\ Cur.branch = "incoming-processed"
                   /\ active = "master") ]_vars

C2_Witness ==
    /\ runs >= 2
    /\ pc = "done"
    /\ HasOp("annex")
    /\ HasOp("add_archive_content")
    /\ tree["master"] # {}

\* C3: a completed run that repeats a completed run of the same pipeline on
\* unchanged source content creates no commit on incoming-processed and no
\* commit on master.
C3_Idempotent ==
    (pc = "done" /\ repeat) =>
        /\ commits["incoming-processed"] = startCommits["incoming-processed"]
        /\ commits["master"] = startCommits["master"]

C3_Witness ==
    /\ pc = "done"
    /\ repeat
    /\ commits["master"] > 0
    /\ "a.dat" \in tree["master"]

\* C4: a run in which the capture sub-pipeline yielded nothing, or the merge
\* of incoming reported no changes, still performs the switch to
\* incoming-processed, the switch to master, the merge of incoming-processed
\* and finalize, and ends with master as the active branch.
C4_OuterNotAborted ==
    (pc = "done" /\ (Has("urls_pipe", "empty") \/ Has("skip_merge", "incoming")))
        => /\ Has("switch_branch", "incoming-processed")
           /\ Has("switch_branch", "master")
           /\ Has("merge_branch", "incoming-processed")
           /\ HasOp("finalize")
           /\ active = "master"

\* C5: whenever a run fails, no branch is left with a merge that was started
\* but not committed.
C5_NeverPartiallyMerged == pc = "failed" => pendingMerge = 0

\* C6: if the merge of incoming into incoming-processed introduces no changes,
\* normalization is skipped in that run: no archive search, no missing-archive
\* failure, no expansion, no deletion, no later commit on incoming-processed.
C6_SkipNormalization ==
    Has("skip_merge", "incoming") =>
        /\ ~HasOp("find_files")
        /\ ~HasOp("add_archive_content")
        /\ ~HasOp("delete")
        /\ pc # "failed"
        /\ \A i, j \in DOMAIN log :
              (i < j /\ log[i] = Ev("skip_merge", "incoming"))
                  => log[j] # Ev("commit", "incoming-processed")

C6_Witness ==
    /\ pc = "done"
    /\ Has("skip_merge", "incoming")
    /\ "a.tgz" \in tree["incoming"]
    /\ HasOp("annex")

\* C7: when normalization runs and no file of the merged tree matches the
\* archive pattern, the run fails iff tarballs=True; on that failure no archive
\* expansion, no switch to master and no merge into master happen in the run.
C7_MissingArchive ==
    Has("find_files", "none") =>
        /\ (pc = "failed") <=> cfg.tarballs
        /\ pc = "failed" =>
              /\ ~HasOp("add_archive_content")
              /\ ~Has("switch_branch", "master")
              /\ ~Has("merge_branch", "incoming-processed")

C7_Witness ==
    /\ Has("find_files", "none")
    /\ pc = "failed"
    /\ cfg.tarballs
    /\ Has("merged", "incoming")

\* C8: a configuration error makes pipeline() fail before any network or
\* store activity: no fetch has been issued and the store has not been opened.
C8_ConfigErrorBeforeActivity ==
    pc = "config_error" => (~storeOpened /\ fetches = 0)

\* the files named by the records annex added in this run
AddedUrls == {added[i].url.file : i \in DOMAIN added}
Sentinels == {"checksums.md5", "filelist.txt"}
\* the capture sub-pipeline of the run is over and the source still is what
\* the run fetched: a change of the source ends the state "done"
CaptureOver ==
    /\ pc \in {"running", "done"}
    /\ Has("switch_branch", "incoming-processed")

\* C12: no record whose url names checksums.md5 or filelist.txt reaches the
\* store-add step, and once the capture sub-pipeline of a manifest-based run
\* is over every other file the manifest lists has reached it.
C12_ManifestExcluded ==
    /\ AddedUrls \cap Sentinels = {}
    /\ (At_("annex") \/ added # <<>>) => "incoming" \in branches
    /\ At_("annex") => active = "incoming"
    /\ (cfg.data_origin = "checksums" /\ CaptureOver)
          => AddedUrls = source \ Sentinels

\* a manifest-based run whose manifest lists itself, the filelist sentinel
\* and a payload file has finished its capture
C12_Witness ==
    /\ cfg.data_origin = "checksums"
    /\ CaptureOver
    /\ Sentinels \subseteq source
    /\ "b.mat" \in AddedUrls

\* C13: after finalize the store is consistent and committed: the working
\* tree is the committed tree of the active branch, no merge is pending and
\* no working directory of an archive expansion is left.
C13_FinalizeConsistent ==
    HasOp("finalize") =>
        /\ pc \in {"done", "idle"}
        /\ ~Dirty
        /\ wt = tree[active]
        /\ pendingMerge = 0
        /\ workdirs = {}

\* a completed run that expanded an archive and then finalized
C13_Witness ==
    /\ pc = "done"
    /\ HasOp("finalize")
    /\ HasOp("add_archive_content")
    /\ commits["master"] > startCommits["master"]

\* the enumeration nodes of the two strategies
ManifestNodes == {"crawl_url", "parse_checksums"}
LinkNodes == {"crawler", "a_href_match"}
NodesOf(c) == {urls_pipe(c)[i] : i \in 1..Len(urls_pipe(c))}
Accepted(c) == c.data_origin \in {"checksums", "urls"}
OneStrategy(c) ==
    \/ ManifestNodes \subseteq NodesOf(c) /\ NodesOf(c) \cap LinkNodes = {}
    \/ LinkNodes \subseteq NodesOf(c) /\ NodesOf(c) \cap ManifestNodes = {}

\* C14: for every configuration pipeline() accepts, the capture sub-pipeline
\* holds the nodes of exactly one enumeration strategy: manifest-based or
\* link-matching, never both and never neither; the run in progress was
\* built from an accepted configuration.
C14_StrategiesExclusive ==
    /\ \A c \in Configs : Accepted(c) => OneStrategy(c)
    /\ pc \in {"running", "done", "failed"} => Accepted(cfg) /\ OneStrategy(cfg)

\* a run enumerated by the manifest has added a record, after an earlier
\* run of the same store
C14_Witness ==
    /\ pc = "running"
    /\ runs > 1
    /\ cfg.data_origin = "checksums"
    /\ added # <<>>

\* the files the strategy of configuration c enumerates in the source
Enumerated(c) ==
    IF c.data_origin = "checksums"
    THEN source \ Sentinels
    ELSE {f \in source : ArchiveHref(f)}

\* the name a file is to be stored under, given the rename rule A -> B
Renamed(c, f) ==
    IF \E i \in DOMAIN c.rename : c.rename[i].from = f
    THEN c.rename[CHOOSE i \in DOMAIN c.rename : c.rename[i].from = f].to
    ELSE f

Before(a, b) ==
    \E i, j \in DOMAIN log : i < j /\ log[i] = a /\ log[j] = b

Listing == <<>>

Pages == {Listing, <<"vc">>, <<"hc">>}

Hrefs == {<<"vc">>, <<"hc">>, <<"vc", "pvc-1">>, <<"hc", "hc-2">>,
          <<"vc", "pvc_3">>}

HasUnderscore(name) == name = "pvc_3"

\* a_href_match('.*/data-sets/[^#/]+$'): the matcher crawl_url recurses on
CategoryMatch(u) == Len(u) = 1

\* a_href_match("(?P<url>.*/data-sets/(?P<dataset_category>[^/#]+)/(?P<dataset>[^_/#]+))$")
DatasetMatch(u) == Len(u) = 2 /\ ~HasUnderscore(u[2])

\* the records a_href_match yields for one page: one per matching link of the
\* page; the matcher keeps no state between pages
dataset_a_href_match(page) ==
    SetToSeq({u \in page : DatasetMatch(u)})

\* assign({'dataset_name': '%(dataset)s'}, interpolate=True)
assign(u) ==
    [url |-> u, dataset_category |-> u[1], dataset |-> u[2],
     dataset_name |-> u[2]]

\* data_fields=['dataset_category', 'dataset']: the identity of a dataset
Identity(r) == <<r.dataset_category, r.dataset>>

Identities == {u \in Hrefs : DatasetMatch(u)}

InitDiscovery ==
    /\ dpc = "idle"
    /\ druns = 0
    /\ links \in [Pages -> SUBSET Hrefs]
    /\ toVisit = <<>>
    /\ seen = {}
    /\ out = <<>>
    /\ received = <<>>
    /\ stores = {}
    /\ creations = [d \in Identities |-> 0]

DiscoveryParked ==
    /\ dpc = "idle"
    /\ druns = 0
    /\ links = [p \in Pages |-> {}]
    /\ toVisit = <<>>
    /\ seen = {}
    /\ out = <<>>
    /\ received = <<>>
    /\ stores = {}
    /\ creations = [d \in Identities |-> 0]

\* a run of the pipeline starts: crawl_url is given the listing page
StartDiscovery ==
    /\ dpc \in {"idle", "done"}
    /\ druns < MaxCrawls
    /\ druns' = druns + 1
    /\ dpc' = "crawling"
    /\ toVisit' = <<Listing>>
    /\ seen' = {}
    /\ out' = <<>>
    /\ received' = <<>>
    /\ UNCHANGED <<links, stores, creations>>

\* crawl_url visits the next URL, yields its page, which the dataset matcher
\* scans, and queues the category links of the page for recursion
CrawlUrl ==
    /\ dpc = "crawling"
    /\ out = <<>>
    /\ toVisit # <<>>
    /\ LET u == Head(toVisit)
           more == SetToSeq({v \in links[u] : CategoryMatch(v) /\ v \in Pages})
       IN  IF u \in seen
           THEN /\ toVisit' = Tail(toVisit)
                /\ UNCHANGED <<seen, out>>
           ELSE /\ seen' = seen \cup {u}
                /\ toVisit' = more \o Tail(toVisit)
                /\ out' = dataset_a_href_match(links[u])
    /\ UNCHANGED <<dpc, druns, links, received, stores, creations>>

\* the policy initiate_dataset is built with: existing='skip'
existing_replace == "replace"
existing == "skip"

\* annex.initiate_dataset(template, data_fields, existing='skip')
InitiateDataset ==
    /\ dpc = "crawling"
    /\ out # <<>>
    /\ LET r == assign(Head(out))
       IN  /\ received' = Append(received, r.url)
           /\ IF Identity(r) \in stores /\ existing = "skip"
              THEN UNCHANGED <<stores, creations>>
              ELSE /\ stores' = stores \cup {Identity(r)}
                   /\ creations' = [creations EXCEPT ![Identity(r)] = @ + 1]
    /\ out' = Tail(out)
    /\ UNCHANGED <<dpc, druns, links, toVisit, seen>>

\* the listing is exhausted: the run ends
EndDiscovery ==
    /\ dpc = "crawling"
    /\ out = <<>>
    /\ toVisit = <<>>
    /\ dpc' = "done"
    /\ UNCHANGED <<druns, links, toVisit, seen, out, received, stores, creations>>

\* C9: within one run of the discovery pipeline the node after the dataset
\* matcher receives every URL at most once, also when two pages link to it.
C9_DeDuplication ==
    \A i, j \in DOMAIN received : i # j => received[i] # received[j]

\* C11: over any sequence of initiate_dataset invocations with
\* existing='skip', a store instance is created at most once per dataset
\* identity, and an invocation for an identity whose store exists changes
\* neither the stores nor the creations and does not stop the run.
C11_SkipExisting ==
    [][ /\ \A d \in Identities : creations'[d] <= 1
        /\ (InitiateDataset /\ Identity(assign(Head(out))) \in stores)
              => (stores' = stores /\ creations' = creations
                    /\ dpc' = "crawling") ]_vars

C11_Witness ==
    /\ druns = 2
    /\ Len(received) >= 2
    /\ \E i, j \in DOMAIN received : i # j /\ received[i] = received[j]
    /\ \A i \in DOMAIN received : creations[received[i]] = 1

(***************************************************************************)
(* get_metadata(dataset=None)                                              *)
(***************************************************************************)
None == "None"

\* the text of the AlternativeTitle elements of the listing, as found in the
\* xml; "" stands for an xml the regular expression does not match
AltTitles == {"", "pvc-1", "pvc-1 ", "hc-2"}

\* str.strip()
strip(t) == IF t = "pvc-1 " THEN "pvc-1" ELSE t

\* re.search('AlternativeTitle.?>CRCNS.org ([^<]*)<', xml_) found a title
reg(xml_) == xml_ # ""

process_datacite_xml(json_, xml_) == None

DocLists == UNION {[1..n -> AltTitles] : n \in 0..MaxDocs}

InitMeta ==
    /\ mpc = "loop"
    /\ docs \in DocLists
    /\ dataset \in {"", "pvc-1", "hc-2"}
    /\ mi = 1
    /\ all_datasets = [n \in {} |-> None]
    /\ stored_by = [n \in {} |-> 0]
    /\ warnings = {}
    /\ ret = ""

MetaParked ==
    /\ mpc = "returned"
    /\ docs = <<>>
    /\ dataset = ""
    /\ mi = 1
    /\ all_datasets = [n \in {} |-> None]
    /\ stored_by = [n \in {} |-> 0]
    /\ warnings = {}
    /\ ret = "dict"

Put(f, k, v) == [n \in DOMAIN f \cup {k} |-> IF n = k THEN v ELSE f[n]]

\* the entry the loop goes on with after an entry without a title: continue
NoTitleBreak(i) == Len(docs) + 1
NoTitleContinue(i) == i + 1

\* one iteration of the loop over the entries
MetaLoop ==
    /\ mpc = "loop"
    /\ mi <= Len(docs)
    /\ LET xml_ == docs[mi]
           dataset_ == strip(xml_)
           dataset_meta == process_datacite_xml(mi, xml_)
       IN  IF ~reg(xml_)
           THEN \* warning, continue
                /\ warnings' = warnings \cup {<<"no title", mi>>}
                /\ mi' = NoTitleContinue(mi)
                /\ UNCHANGED <<mpc, all_datasets, stored_by, ret>>
           ELSE IF dataset # "" /\ dataset = dataset_
           THEN \* return dataset_meta
                /\ mpc' = "returned"
                /\ ret' = "entry"
                /\ UNCHANGED <<mi, all_datasets, stored_by, warnings>>
           ELSE /\ warnings' = IF dataset_ \in DOMAIN all_datasets
                               THEN warnings \cup {<<"duplicate", mi>>}
                               ELSE warnings
                /\ all_datasets' = Put(all_datasets, dataset_, dataset_meta)
                /\ stored_by' = Put(stored_by, dataset_, mi)
                /\ mi' = mi + 1
                /\ UNCHANGED <<mpc, ret>>
    /\ UNCHANGED <<docs, dataset>>

\* the loop is over: return all_datasets
MetaReturn ==
    /\ mpc = "loop"
    /\ mi > Len(docs)
    /\ mpc' = "returned"
    /\ ret' = "dict"
    /\ UNCHANGED <<docs, dataset, mi, all_datasets, stored_by, warnings>>

\* the first entry of the listing with a dataset name
FirstEntry(n) ==
    CHOOSE i \in DOMAIN docs :
        /\ reg(docs[i]) /\ strip(docs[i]) = n
        /\ \A j \in 1..(i - 1) : ~(reg(docs[j]) /\ strip(docs[j]) = n)

\* C10: for every listing, the record get_metadata() returns under a dataset
\* name is the one of the first entry with that name; later entries with the
\* name are dropped.
C10_FirstSeenWins ==
    (mpc = "returned" /\ ret = "dict") =>
        \A n \in DOMAIN all_datasets : stored_by[n] = FirstEntry(n)

\* the entries of the listing whose title get_metadata() can determine
Resolvable == {i \in DOMAIN docs : reg(docs[i])}

\* C16: an entry without the alternative title is skipped with a warning and
\* every following entry is still processed: when get_metadata() returns
\* the dictionary, every resolvable entry of the listing is in it, under its
\* stripped title, and nothing else is.
C16_UnresolvableIsolated ==
    /\ mpc \in {"loop", "returned"}
    /\ \A i \in 1..(mi - 1) :
          IF i \in Resolvable
          THEN strip(docs[i]) \in DOMAIN all_datasets
          ELSE <<"no title", i>> \in warnings
    /\ (mpc = "returned" /\ ret = "dict") =>
          DOMAIN all_datasets = {strip(docs[i]) : i \in Resolvable}

\* the dictionary was returned for a listing whose unresolvable entry
\* stands ahead of a resolvable one
C16_Witness ==
    /\ mpc = "returned"
    /\ ret = "dict"
    /\ \E i, j \in DOMAIN docs :
          i < j /\ i \notin Resolvable /\ j \in Resolvable

\* C20: get_metadata(dataset=D) with a dataset name D returns a single
\* entry, the first one named D, never the dictionary of all datasets; the
\* dictionary is returned only when no dataset is given.
C20_SingleEntryForName ==
    mpc = "returned" =>
        /\ dataset # "" => (ret = "entry" /\ mi = FirstEntry(dataset))
        /\ dataset = "" => ret = "dict"

(***************************************************************************)
(* HandleRepo (support/handlerepo.py): __init__, set_name,                 *)
(* set_metadata_handler, save_config and datalad_id, on the original       *)
(* repository and on one clone of it.                                      *)
(***************************************************************************)
MaxInstances == 2

Paths == {"orig", "clone"}

\* os.path.basename(self.path)
basename(p) == p

\* self.repo.config_reader().get_value("annex", "uuid"): the uuid git-annex
\* gave the repository at this path; it is local to the repository
AnnexUuid(p) == IF p = "orig" THEN "u1" ELSE "u2"

\* the values of the parameter name; "" stands for None
CtorNames == {"", "N"}
NewNames == {"M"}

\* the classes handed to set_metadata_handler
Handlers == {"DefaultHandler", "CustomHandler"}
NotHandlers == {"dict"}

\* a repository without .datalad/handle.cfg
NoFile == [exists |-> FALSE, id |-> "", name |-> "", handler |-> ""]

InitHandle ==
    /\ config_file = [p \in Paths |-> NoFile]
    /\ cloned = FALSE
    /\ handles = <<>>
    /\ raised = FALSE

HandleParked == InitHandle

\* the repository at path p exists
Exists(p) == p = "orig" \/ cloned

\* has_option(section, option) after reading the file: save_config writes
\* every option of the parser, so a file has all three or does not exist
has_option(f) == f.exists

(***************************************************************************)
(* HandleRepo(path, url=None, name=None): with a url the repository at      *)
(* path is first cloned from it and carries what was added to git there.   *)
(* The constructor fills the parser and does not write the file.           *)
(***************************************************************************)
HandleRepoInit(p, url, name) ==
    /\ Len(handles) < MaxInstances
    /\ \/ url = "" /\ Exists(p)
       \/ url = "orig" /\ p = "clone" /\ ~cloned
    /\ LET f == IF url = "" THEN config_file[p] ELSE config_file[url]
           parser ==
               [id      |-> IF has_option(f) THEN f.id ELSE AnnexUuid(p),
                name    |-> IF has_option(f) THEN f.name
                            ELSE IF name # "" THEN name ELSE basename(p),
                handler |-> IF has_option(f) THEN f.handler
                            ELSE "DefaultHandler"]
       IN  /\ handles' = Append(handles,
                  [path |-> p, ctor_name |-> name, file_name |-> f.name,
                   renamed |-> FALSE, parser |-> parser])
           /\ config_file' = [config_file EXCEPT ![p] = f]
    /\ cloned' = (cloned \/ url # "")
    /\ raised' = FALSE

\* set_name(name)
SetName(i, name) ==
    /\ i \in DOMAIN handles
    /\ handles' = [handles EXCEPT ![i].parser.name = name,
                                  ![i].renamed = TRUE]
    /\ raised' = FALSE
    /\ UNCHANGED <<config_file, cloned>>

\* set_metadata_handler(handler)
SetMetadataHandler(i, handler) ==
    /\ i \in DOMAIN handles
    /\ IF handler \notin Handlers
       THEN \* raise TypeError
            /\ raised' = TRUE
            /\ UNCHANGED handles
       ELSE /\ raised' = FALSE
            /\ handles' = [handles EXCEPT ![i].parser.handler = handler]
    /\ UNCHANGED <<config_file, cloned>>

\* save_config(): write the parser to handle.cfg and add the file to git
SaveConfig(i) ==
    /\ i \in DOMAIN handles
    /\ config_file' =
          [config_file EXCEPT ![handles[i].path] =
              [exists  |-> TRUE,
               id      |-> handles[i].parser.id,
               name    |-> handles[i].parser.name,
               handler |-> handles[i].parser.handler]]
    /\ raised' = FALSE
    /\ UNCHANGED <<cloned, handles>>

\* the property datalad_id of instance i
datalad_id(i) == handles[i].parser.id

\* the property name of instance i (get_name)
get_name(i) == handles[i].parser.name

\* C18: the name of an instance constructed with name=N is N, whether or
\* not handle.cfg records a name; without a name it is the name of the
\* file, and the basename of the path when there is no file. (Instances
\* renamed by set_name since are left out.)
C18_NameHasPriority ==
    \A i \in DOMAIN handles :
        ~handles[i].renamed =>
            get_name(i) = IF handles[i].ctor_name # "" THEN handles[i].ctor_name
                          ELSE IF handles[i].file_name # ""
                               THEN handles[i].file_name
                               ELSE basename(handles[i].path)

\* C19: once a HandleRepo has been constructed on the original repository,
\* datalad_id of every instance, on the original repository and on the
\* clone made afterwards, is the annex uuid of the original repository,
\* and so is the id of every handle.cfg added to git.
C19_IdKept ==
    (handles # <<>> /\ handles[1].path = "orig") =>
        /\ \A i \in DOMAIN handles : datalad_id(i) = AnnexUuid("orig")
        /\ \A p \in Paths :
              config_file[p].exists => config_file[p].id = AnnexUuid("orig")

(***************************************************************************)
(* Unlock.__call__(path=None, dataset=None, recursive=False,               *)
(* recursion_limit=None) (interface/unlock.py), run under eval_results     *)
(* with on_failure = 'continue'.                                           *)
(***************************************************************************)
MaxCalls == 2

\* the installed datasets, by path
Datasets == {"d1", "d2", "d3"}

\* what Dataset(ds_path).repo can be: an annex, an annex in direct mode, a
\* plain git repository
RepoKinds == {"annex", "direct", "git"}
IsAnnexRepo(k) == k \in {"annex", "direct"}
is_direct_mode(k) == k = "direct"

\* the paths a caller passes: "a" is relative, the others are absolute
ArgPaths == {"a", "d1/a", "d2/c", "d3/e", "d1/gone", "out"}
curdir == "."

\* get_normalized_path_arguments(path, dataset, default=curdir): a relative
\* path is taken below the dataset, below the current directory without
\* one; without a path the dataset (or the default) is the one path
Normalize(p, ds) ==
    IF p = "a" THEN (IF ds = None THEN "./a" ELSE "d1/a") ELSE p
get_normalized_path_arguments(pa, ds) ==
    IF pa.given
    THEN {Normalize(p, ds) : p \in pa.paths}
    ELSE {IF ds = None THEN curdir ELSE ds}

\* the file system the calls find: which paths exist, and the dataset a
\* path lies in ("" for none)
PathExists(p) == p \notin {"d1/gone", "./a"}
DatasetOf(p) ==
    CASE p \in {"d1", "d1/a", "d1/gone"} -> "d1"
      [] p = "d2/c"                       -> "d2"
      [] p = "d3/e"                       -> "d3"
      [] OTHER                            -> ""

\* get_paths_by_dataset(resolved_paths, ...)
ContentByDs(resolved) ==
    [d \in {DatasetOf(p) : p \in {q \in resolved :
                                      PathExists(q) /\ DatasetOf(q) # ""}}
        |-> {p \in resolved : PathExists(p) /\ DatasetOf(p) = d}]
Unavailable(resolved) == {p \in resolved : ~PathExists(p)}
NonDataset(resolved) == {p \in resolved : PathExists(p) /\ DatasetOf(p) = ""}

\* sorted(content_by_ds.keys())
DsRank(d) == CASE d = "d1" -> 1 [] d = "d2" -> 2 [] d = "d3" -> 3
sorted_reverse(S) == SelectSeq(<<"d3", "d2", "d1">>, LAMBDA d : d \in S)
sorted(S) == SelectSeq(<<"d1", "d2", "d3">>, LAMBDA d : d \in S)

\* if path is None and dataset is None
never_insufficient(pa, ds) == FALSE
insufficient(pa, ds) == ~pa.given /\ ds = None

\* how eval_results goes on after a result that is not a success
on_failure_stop == "stop"
on_failure == "continue"

NoContent == [d \in {} |-> {}]

UnlockParked ==
    /\ upc = "idle"
    /\ ucalls = 0
    /\ path_arg = [given |-> FALSE, paths |-> {}]
    /\ dataset_arg = None
    /\ repo_kind = [d \in Datasets |-> "annex"]
    /\ resolved_paths = {}
    /\ content_by_ds = NoContent
    /\ unavailable_paths = {}
    /\ nondataset_paths = {}
    /\ todo = <<>>
    /\ results = <<>>
    /\ commands = <<>>

InitUnlock ==
    /\ upc = "idle"
    /\ ucalls = 0
    /\ path_arg = [given |-> FALSE, paths |-> {}]
    /\ dataset_arg = None
    /\ repo_kind \in [Datasets -> RepoKinds]
    /\ resolved_paths = {}
    /\ content_by_ds = NoContent
    /\ unavailable_paths = {}
    /\ nondataset_paths = {}
    /\ todo = <<>>
    /\ results = <<>>
    /\ commands = <<>>

\* results_from_paths(paths, status='impossible', message=...): one result
\* for a path
get_status_dict(p, st, msg) == [path |-> p, status |-> st, message |-> msg]

\* the call: lines 76-90, up to the first of the loops that yield
UnlockCall(pa, ds) ==
    /\ upc \in {"idle", "raised", "stopped", "done"}
    /\ ucalls < MaxCalls
    /\ ucalls' = ucalls + 1
    /\ path_arg' = pa
    /\ dataset_arg' = ds
    /\ results' = <<>>
    /\ commands' = <<>>
    /\ UNCHANGED repo_kind
    /\ IF insufficient(pa, ds)
       THEN \* raise InsufficientArgumentsError
            /\ upc' = "raised"
            /\ resolved_paths' = {}
            /\ content_by_ds' = NoContent
            /\ unavailable_paths' = {}
            /\ nondataset_paths' = {}
            /\ todo' = <<>>
       ELSE LET resolved == get_normalized_path_arguments(pa, ds)
            IN  /\ resolved_paths' = resolved
                /\ content_by_ds' = ContentByDs(resolved)
                /\ unavailable_paths' = Unavailable(resolved)
                /\ nondataset_paths' = NonDataset(resolved)
                /\ todo' = SetToSeq(NonDataset(resolved))
                /\ upc' = "nondataset"

\* eval_results after a yielded result that is not a success
AfterFailure(next) == IF on_failure = "stop" THEN "stopped" ELSE next

\* for r in results_from_paths(nondataset_paths, status='impossible', ...)
YieldNondataset ==
    /\ upc = "nondataset"
    /\ IF todo = <<>>
       THEN /\ upc' = "unavailable"
            /\ todo' = SetToSeq(unavailable_paths)
            /\ UNCHANGED results
       ELSE /\ results' = Append(results,
                   get_status_dict(Head(todo), "impossible", "nondataset"))
            /\ todo' = Tail(todo)
            /\ upc' = AfterFailure(upc)
    /\ UNCHANGED <<ucalls, path_arg, dataset_arg, repo_kind, resolved_paths,
                   content_by_ds, unavailable_paths, nondataset_paths,
                   commands>>

\* for r in results_from_paths(unavailable_paths, status='impossible', ...)
YieldUnavailable ==
    /\ upc = "unavailable"
    /\ IF todo = <<>>
       THEN /\ upc' = "datasets"
            /\ todo' = sorted(DOMAIN content_by_ds)
            /\ UNCHANGED results
       ELSE /\ results' = Append(results,
                   get_status_dict(Head(todo), "impossible", "unavailable"))
            /\ todo' = Tail(todo)
            /\ upc' = AfterFailure(upc)
    /\ UNCHANGED <<ucalls, path_arg, dataset_arg, repo_kind, resolved_paths,
                   content_by_ds, unavailable_paths, nondataset_paths,
                   commands>>

\* the results for the files the repository reports as unlocked
OkResults(fs) ==
    LET q == SetToSeq(fs)
    IN  [i \in 1..Len(q) |-> get_status_dict(q[i], "ok", "")]

\* one iteration of: for ds_path in sorted(content_by_ds.keys()); the
\* generator returns when the loop is over
LoopDataset ==
    /\ upc = "datasets"
    /\ IF todo = <<>>
       THEN /\ upc' = "done"
            /\ UNCHANGED <<todo, results, commands>>
       ELSE LET ds_path == Head(todo)
                files == content_by_ds[ds_path]
            IN  /\ todo' = Tail(todo)
                /\ UNCHANGED upc
                /\ IF ~IsAnnexRepo(repo_kind[ds_path])
                   THEN \* has no annex, nothing to unlock: continue
                        UNCHANGED <<results, commands>>
                   ELSE IF is_direct_mode(repo_kind[ds_path])
                   THEN \* the files whose content is present
                        /\ \E has_content \in SUBSET files :
                              results' = results \o OkResults(has_content)
                        /\ UNCHANGED commands
                   ELSE \* _annex_custom_command(files, ['git', 'annex',
                        \* 'unlock']) and the lines of its output ending
                        \* in ok
                        /\ commands' = Append(commands,
                               [ds |-> ds_path, files |-> files])
                        /\ \E ok \in SUBSET files :
                              results' = results \o OkResults(ok)
    /\ UNCHANGED <<ucalls, path_arg, dataset_arg, repo_kind, resolved_paths,
                   content_by_ds, unavailable_paths, nondataset_paths>>

\* C21: a call with neither a path nor a dataset raises
\* InsufficientArgumentsError and nothing else happens in it: no result is
\* yielded, no path is resolved, no unlock command is issued.
C21_InsufficientArguments ==
    /\ (ucalls > 0 /\ ~path_arg.given /\ dataset_arg = None) => upc = "raised"
    /\ upc = "raised" =>
          /\ results = <<>>
          /\ resolved_paths = {}
          /\ content_by_ds = NoContent
          /\ commands = <<>>

\* the second call of a session was made without arguments and raised
C21_Witness ==
    /\ upc = "raised"
    /\ ucalls = 2
    /\ ~path_arg.given
    /\ dataset_arg = None

\* the results of the call that report path p as impossible
Impossible(p) ==
    {i \in DOMAIN results :
        results[i].path = p /\ results[i].status = "impossible"}

\* the resolved paths of the call that lie in no dataset or do not exist
BadPaths ==
    {p \in resolved_paths : ~PathExists(p) \/ DatasetOf(p) = ""}

\* the datasets of the call that hold a resolved path that exists
ValidDatasets ==
    {DatasetOf(p) : p \in resolved_paths \ BadPaths}

\* C22: every path in no dataset and every path that does not exist is
\* reported as one impossible result, which does not stop the call: all
\* datasets with valid paths are then gone through in sorted order of their
\* path, and 'git annex unlock' is issued to those whose repository is an
\* annex not in direct mode, and to no other dataset.
C22_ImpossibleAndUnlock ==
    /\ upc # "stopped"
    /\ \A i \in DOMAIN results :
          results[i].status = "impossible" => results[i].path \in BadPaths
    /\ upc \in {"datasets", "done"} =>
          \A p \in BadPaths : Cardinality(Impossible(p)) = 1
    /\ \A i \in DOMAIN commands :
          /\ commands[i].ds \in ValidDatasets
          /\ repo_kind[commands[i].ds] = "annex"
          /\ commands[i].files =
                {p \in resolved_paths \ BadPaths : DatasetOf(p) = commands[i].ds}
    /\ \A i, j \in DOMAIN commands :
          i < j => DsRank(commands[i].ds) < DsRank(commands[j].ds)
    /\ upc = "done" =>
          {commands[i].ds : i \in DOMAIN commands}
              = {d \in ValidDatasets : repo_kind[d] = "annex"}

\* a call with a path outside every dataset, a missing path and paths in
\* three datasets has ended: two annexes were unlocked, the third dataset
\* was not
C22_Witness ==
    /\ upc = "done"
    /\ Impossible("out") # {}
    /\ Impossible("d1/gone") # {}
    /\ Len(commands) = 2
    /\ ValidDatasets = Datasets

(***************************************************************************)
(* The specifications: the ingestion pipeline, the discovery pipeline and  *)
(* get_metadata() are checked one at a time.                               *)
(***************************************************************************)

PipelineParked ==
    /\ InitPipeline
    /\ source = {}

Init ==
    InitPipeline /\ DiscoveryParked /\ MetaParked /\ HandleParked /\ UnlockParked

Next ==
    \/ (\E c \in Configs, d \in LeadingDirsDepths : CallPipeline(c, d))
          /\ UNCHANGED <<dvars, mvars, hvars, uvars>>
    \/ (\E s \in SUBSET Files : SourceChanges(s)) /\ UNCHANGED <<dvars, mvars, hvars, uvars>>
    \/ SwitchBranch /\ UNCHANGED <<dvars, mvars, hvars, uvars>>
    \/ (\E ok \in BOOLEAN : Capture(ok)) /\ UNCHANGED <<dvars, mvars, hvars, uvars>>
    \/ Annex /\ UNCHANGED <<dvars, mvars, hvars, uvars>>
    \/ MergeBranch /\ UNCHANGED <<dvars, mvars, hvars, uvars>>
    \/ FindFiles /\ UNCHANGED <<dvars, mvars, hvars, uvars>>
    \/ AddArchiveContent /\ UNCHANGED <<dvars, mvars, hvars, uvars>>
    \/ Finalize /\ UNCHANGED <<dvars, mvars, hvars, uvars>>

Spec == Init /\ [][Next]_vars

DiscoveryNext ==
    \/ StartDiscovery /\ UNCHANGED <<pvars, mvars, hvars, uvars>>
    \/ CrawlUrl /\ UNCHANGED <<pvars, mvars, hvars, uvars>>
    \/ InitiateDataset /\ UNCHANGED <<pvars, mvars, hvars, uvars>>
    \/ EndDiscovery /\ UNCHANGED <<pvars, mvars, hvars, uvars>>

DiscoveryInit ==
    PipelineParked /\ InitDiscovery /\ MetaParked /\ HandleParked
    /\ UnlockParked

SpecDiscovery == DiscoveryInit /\ [][DiscoveryNext]_vars

MetaNext ==
    \/ MetaLoop /\ UNCHANGED <<pvars, dvars, hvars, uvars>>
    \/ MetaReturn /\ UNCHANGED <<pvars, dvars, hvars, uvars>>

MetaInit ==
    PipelineParked /\ DiscoveryParked /\ InitMeta /\ HandleParked /\ UnlockParked

SpecMeta == MetaInit /\ [][MetaNext]_vars

HandleNext ==
    \/ (\E p \in Paths, url \in {"", "orig"}, name \in CtorNames :
            HandleRepoInit(p, url, name)) /\ UNCHANGED <<pvars, dvars, mvars, uvars>>
    \/ (\E i \in 1..MaxInstances, name \in NewNames : SetName(i, name))
          /\ UNCHANGED <<pvars, dvars, mvars, uvars>>
    \/ (\E i \in 1..MaxInstances, handler \in Handlers \cup NotHandlers :
            SetMetadataHandler(i, handler)) /\ UNCHANGED <<pvars, dvars, mvars, uvars>>
    \/ (\E i \in 1..MaxInstances : SaveConfig(i))
          /\ UNCHANGED <<pvars, dvars, mvars, uvars>>

HandleInit ==
    PipelineParked /\ DiscoveryParked /\ MetaParked /\ InitHandle /\ UnlockParked

SpecHandle == HandleInit /\ [][HandleNext]_vars

UnlockNext ==
    \/ (\E given \in BOOLEAN, ps \in SUBSET ArgPaths, ds \in {None, "d1"} :
            /\ given => ps # {}
            /\ ~given => ps = {}
            /\ UnlockCall([given |-> given, paths |-> ps], ds))
          /\ UNCHANGED <<pvars, dvars, mvars, hvars>>
    \/ YieldNondataset /\ UNCHANGED <<pvars, dvars, mvars, hvars>>
    \/ YieldUnavailable /\ UNCHANGED <<pvars, dvars, mvars, hvars>>
    \/ LoopDataset /\ UNCHANGED <<pvars, dvars, mvars, hvars>>

UnlockInit ==
    PipelineParked /\ DiscoveryParked /\ MetaParked /\ HandleParked
    /\ InitUnlock

SpecUnlock == UnlockInit /\ [][UnlockNext]_vars

====
